---- MODULE Spec2Model ----
(***************************************************************************)
(* Cookie-based route guarding of the company website: the Route Guard     *)
(* (middleware), the Cookie Bridge (setAuthCookies / clearAuthCookies) and *)
(* the Auth State Store (AuthProvider: refreshUser, login, logout).        *)
(*                                                                         *)
(* Strings the code inspects character by character (paths, query          *)
(* strings) are sequences of one-character strings, so that startsWith,    *)
(* URL encoding and decoding are computed and not assumed.                 *)
(***************************************************************************)
EXTENDS Bags, FiniteSets, Integers, Sequences, TLC

VARIABLES
    user,       \* AuthProvider state `user': NULL or a User record
    loading,    \* AuthProvider state `loading'
    cookies,    \* document.cookie of the tab: the three Cookie Projection cookies
    calls,      \* bag of Auth State Store calls suspended at an await
    last,       \* the call that completed most recently, with its outcome
    request,    \* the page request the Route Guard is handling / handled last
    response,   \* the Route Guard's answer to `request'
    loginPage,      \* component state of LoginPage and the position of its handlers
    resetPage,      \* component state of ResetPasswordPage
    dashboardPage,  \* component state of DashboardPage
    openMenu        \* Header state `openMenu': NoMenu or the key of a section

vars ==
    <<user, loading, cookies, calls, last, request, response,
      loginPage, resetPage, dashboardPage, openMenu>>

pages == <<loginPage, resetPage, dashboardPage, openMenu>>

----------------------------------------------------------------------------
(* Bounds of the model *)

\* longest suffix appended to a route prefix when request paths are enumerated
MaxSuffixLen == 2
\* most Auth State Store calls suspended at the same time
MaxInFlight == 2
\* the same, when the pages and the Route Guard run along with the store
MaxSiteInFlight == 1
\* most setTimeout callbacks of one page pending at the same time
MaxTimers == 1

----------------------------------------------------------------------------
(* Values *)

\* a cookie (or token, or attribute) that is not there
Absent == "<absent>"

NULL == [isNull |-> TRUE]

\* useState<keyof Sections | null>(null): no menu is open
NoMenu == "null"

Truthy(s) == s # Absent /\ s # ""

\* s.startsWith(pre)
StartsWith(s, pre) ==
    /\ Len(pre) <= Len(s)
    /\ SubSeq(s, 1, Len(pre)) = pre

DashboardRoute == <<"/", "d", "a", "s", "h", "b", "o", "a", "r", "d">>
DiscoveryRoute == <<"/", "d", "i", "s", "c", "o", "v", "e", "r", "y">>
ImplementationRoute == <<"/", "i", "m", "p", "l", "e", "m", "e", "n", "t", "a", "t", "i", "o", "n">>
AccountRoute == <<"/", "a", "c", "c", "o", "u", "n", "t">>
AdminRoute == <<"/", "a", "d", "m", "i", "n">>
LoginRoute == <<"/", "l", "o", "g", "i", "n">>
SignupRoute == <<"/", "s", "i", "g", "n", "u", "p">>
ForgotPasswordRoute == <<"/", "f", "o", "r", "g", "o", "t", "-", "p", "a", "s", "s", "w", "o", "r", "d">>
ResetPasswordRoute == <<"/", "r", "e", "s", "e", "t", "-", "p", "a", "s", "s", "w", "o", "r", "d">>
RootRoute == <<"/">>
AdminMonitoringRoute == <<"/", "a", "d", "m", "i", "n", "/", "m", "o", "n", "i", "t", "o", "r", "i", "n", "g">>

AdminGroup == "DataWovenAdmin"

RoutePrefixes ==
    { DashboardRoute, DiscoveryRoute, ImplementationRoute, AccountRoute,
      AdminRoute, LoginRoute, SignupRoute, ForgotPasswordRoute,
      ResetPasswordRoute, RootRoute }

\* every non-empty prefix of a route prefix: "/", "/a", "/ad", ..., "/admin"
PathStems ==
    UNION { { SubSeq(r, 1, k) : k \in 1..Len(r) } : r \in RoutePrefixes }

SuffixChars == { "/", "x" }

Suffixes ==
    UNION { [1..n -> SuffixChars] : n \in 0..MaxSuffixLen }

\* the request paths the Route Guard is evaluated on
Paths == { stem \o suf : stem \in PathStems, suf \in Suffixes }

----------------------------------------------------------------------------
(* URL query strings *)

\* URLSearchParams serialisation of one value: "/" becomes %2F
RECURSIVE UrlEncode(_)
UrlEncode(s) ==
    IF s = <<>> THEN <<>>
    ELSE (IF Head(s) = "/" THEN <<"%", "2", "F">> ELSE <<Head(s)>>)
         \o UrlEncode(Tail(s))

\* URLSearchParams parsing of one value: %2F becomes "/"
RECURSIVE UrlDecode(_)
UrlDecode(s) ==
    IF s = <<>> THEN <<>>
    ELSE IF Len(s) >= 3 /\ SubSeq(s, 1, 3) = <<"%", "2", "F">>
         THEN <<"/">> \o UrlDecode(SubSeq(s, 4, Len(s)))
         ELSE <<Head(s)>> \o UrlDecode(Tail(s))

RedirectKey == <<"r", "e", "d", "i", "r", "e", "c", "t">>
ErrorKey == <<"e", "r", "r", "o", "r">>
Unauthorized == <<"u", "n", "a", "u", "t", "h", "o", "r", "i", "z", "e", "d">>

\* variant: the parameter is never attached
SearchParamsSet_dropped(key, value) == <<>>

\* url.searchParams.set(key, value) on a URL without a query
SearchParamsSet(key, value) == key \o <<"=">> \o UrlEncode(value)

\* new URLSearchParams(search).get(key) for a query of at most one parameter
SearchParamsGet(search, key) ==
    IF StartsWith(search, key \o <<"=">>)
    THEN UrlDecode(SubSeq(search, Len(key) + 2, Len(search)))
    ELSE <<>>

----------------------------------------------------------------------------
(* Route Guard *)

NoCookies == [accessToken |-> Absent, idToken |-> Absent, userGroup |-> Absent]

Response(kind, to, search) == [kind |-> kind, pathname |-> to, search |-> search]

NextResponse_next == Response("next", <<>>, <<>>)

NextResponse_redirect(to, search) == Response("redirect", to, search)

\* variant: a marker with an empty value does not count
isAuthenticated_nonEmpty(jar) ==
    Truthy(jar.accessToken) /\ Truthy(jar.idToken)

\* variant: one marker is enough
isAuthenticated_either(jar) ==
    jar.accessToken # Absent \/ jar.idToken # Absent

isAuthenticated(jar) ==
    jar.accessToken # Absent /\ jar.idToken # Absent

\* variant: /admin is left out of the protected routes
isAuthenticatedRoute_noAdmin(pathname) ==
    \/ StartsWith(pathname, DashboardRoute)
    \/ StartsWith(pathname, DiscoveryRoute)
    \/ StartsWith(pathname, ImplementationRoute)
    \/ StartsWith(pathname, AccountRoute)

\* variant: /account is left out of the protected routes
isAuthenticatedRoute_noAccount(pathname) ==
    \/ StartsWith(pathname, DashboardRoute)
    \/ StartsWith(pathname, DiscoveryRoute)
    \/ StartsWith(pathname, ImplementationRoute)
    \/ StartsWith(pathname, AdminRoute)

isAuthenticatedRoute(pathname) ==
    \/ StartsWith(pathname, DashboardRoute)
    \/ StartsWith(pathname, DiscoveryRoute)
    \/ StartsWith(pathname, ImplementationRoute)
    \/ StartsWith(pathname, AccountRoute)
    \/ StartsWith(pathname, AdminRoute)

\* variant: every protected route is kept for the administrative group
isAdminRoute_protected(pathname) ==
    isAuthenticatedRoute(pathname)

\* variant: exact match instead of prefix match
isAdminRoute_exact(pathname) == pathname = AdminRoute

isAdminRoute(pathname) == StartsWith(pathname, AdminRoute)

isPublicRoute(pathname) ==
    \/ StartsWith(pathname, LoginRoute)
    \/ StartsWith(pathname, SignupRoute)
    \/ StartsWith(pathname, ForgotPasswordRoute)
    \/ StartsWith(pathname, ResetPasswordRoute)
    \/ pathname = RootRoute

\* variant: an authenticated request for any public route is redirected
middleware_anyPublic(pathname, jar) ==
    IF isAuthenticatedRoute(pathname) /\ ~isAuthenticated(jar)
    THEN NextResponse_redirect(LoginRoute, SearchParamsSet(RedirectKey, pathname))
    ELSE IF /\ isAdminRoute(pathname)
            /\ isAuthenticated(jar)
            /\ jar.userGroup # AdminGroup
    THEN NextResponse_redirect(DashboardRoute, SearchParamsSet(ErrorKey, Unauthorized))
    ELSE IF /\ isPublicRoute(pathname)
            /\ isAuthenticated(jar)
    THEN NextResponse_redirect(DashboardRoute, <<>>)
    ELSE NextResponse_next

\* variant: a request without the administrative group is sent to /login
middleware_unauthorizedToLogin(pathname, jar) ==
    IF isAuthenticatedRoute(pathname) /\ ~isAuthenticated(jar)
    THEN NextResponse_redirect(LoginRoute, SearchParamsSet(RedirectKey, pathname))
    ELSE IF /\ isAdminRoute(pathname)
            /\ isAuthenticated(jar)
            /\ jar.userGroup # AdminGroup
    THEN NextResponse_redirect(LoginRoute, SearchParamsSet(ErrorKey, Unauthorized))
    ELSE IF /\ isPublicRoute(pathname)
            /\ isAuthenticated(jar)
            /\ StartsWith(pathname, LoginRoute)
    THEN NextResponse_redirect(DashboardRoute, <<>>)
    ELSE NextResponse_next

middleware(pathname, jar) ==
    IF isAuthenticatedRoute(pathname) /\ ~isAuthenticated(jar)
    THEN NextResponse_redirect(LoginRoute, SearchParamsSet(RedirectKey, pathname))
    ELSE IF /\ isAdminRoute(pathname)
            /\ isAuthenticated(jar)
            /\ jar.userGroup # AdminGroup
    THEN NextResponse_redirect(DashboardRoute, SearchParamsSet(ErrorKey, Unauthorized))
    ELSE IF /\ isPublicRoute(pathname)
            /\ isAuthenticated(jar)
            /\ StartsWith(pathname, LoginRoute)
    THEN NextResponse_redirect(DashboardRoute, <<>>)
    ELSE NextResponse_next

----------------------------------------------------------------------------
(* Identity Provider outcomes *)

GroupNames == { "DataWovenAdmin", "ImplementationUser" }

\* the values of the cognito:groups claim: the groups of a user, each
\* listed once, in any order
GroupSeqs ==
    { g \in UNION { [1..n -> GroupNames] : n \in 0..Cardinality(GroupNames) } :
        \A i, j \in 1..Len(g) : g[i] = g[j] => i = j }

NoClaim == [present |-> FALSE, groups |-> <<>>]

Claims == { NoClaim } \cup { [present |-> TRUE, groups |-> g] : g \in GroupSeqs }

TokenStrings == { "jwt" }

\* fetchAuthSession() results: `tokens' undefined, or an access token
\* (carrying the claim) with or without an id token
NoTokens == [accessToken |-> Absent, idToken |-> Absent, claim |-> NoClaim]

Sessions ==
    { NoTokens } \cup
    { [accessToken |-> a, idToken |-> i, claim |-> c] :
        a \in TokenStrings, i \in TokenStrings \cup { Absent }, c \in Claims }

\* getCurrentUser() results
CurrentUsers ==
    { [userId |-> "u1", loginId |-> "login@dw"] }

NoCurrentUser == [userId |-> Absent, loginId |-> Absent]

\* fetchUserAttributes() results (the email attribute)
AttributeEmails == { Absent, "attr@dw" }

\* signIn() results
SignInResults == { "DONE", "CONFIRM_SIGN_IN_WITH_NEW_PASSWORD_REQUIRED", "CONFIRM_SIGN_UP" }

----------------------------------------------------------------------------
(* Cookie Bridge *)

\* tokens?.accessToken?.payload["cognito:groups"] || []
ClaimGroups(tokens) ==
    IF tokens.accessToken # Absent /\ tokens.claim.present
    THEN tokens.claim.groups
    ELSE <<>>

\* variant: the administrative group wins wherever it stands in the claim
PrimaryGroup_adminFirst(groups) ==
    IF \E i \in 1..Len(groups) : groups[i] = AdminGroup THEN AdminGroup
    ELSE IF groups # <<>> /\ Truthy(groups[1]) THEN groups[1] ELSE "none"

\* groups[0] || "none"
PrimaryGroup(groups) ==
    IF groups # <<>> /\ Truthy(groups[1]) THEN groups[1] ELSE "none"

\* variant: only the two token cookies are written
setAuthCookies_noGroup(tokens, jar) ==
    IF Truthy(tokens.accessToken) /\ Truthy(tokens.idToken)
    THEN [accessToken |-> tokens.accessToken,
          idToken |-> tokens.idToken,
          userGroup |-> jar.userGroup]
    ELSE jar

setAuthCookies(tokens, jar) ==
    IF Truthy(tokens.accessToken) /\ Truthy(tokens.idToken)
    THEN [accessToken |-> tokens.accessToken,
          idToken |-> tokens.idToken,
          userGroup |-> PrimaryGroup(ClaimGroups(tokens))]
    ELSE jar

\* variant: each call expires only the first cookie that is still there
clearAuthCookies_firstOnly(jar) ==
    IF jar.accessToken # Absent THEN [jar EXCEPT !.accessToken = Absent]
    ELSE IF jar.idToken # Absent THEN [jar EXCEPT !.idToken = Absent]
    ELSE [jar EXCEPT !.userGroup = Absent]

clearAuthCookies(jar) ==
    [accessToken |-> Absent, idToken |-> Absent, userGroup |-> Absent]

----------------------------------------------------------------------------
(* Auth State Store *)

\* attributes.email || currentUser.signInDetails?.loginId || ""
UserEmail(attrEmail, currentUser) ==
    IF Truthy(attrEmail) THEN attrEmail
    ELSE IF Truthy(currentUser.loginId) THEN currentUser.loginId
    ELSE ""

User(currentUser, session, attrEmail) ==
    [email |-> UserEmail(attrEmail, currentUser),
     userId |-> currentUser.userId,
     groups |-> ClaimGroups(session)]

\* a suspended call: `owner' is the page handler awaiting it ("none" for any
\* other caller), `overlapped' records that another refreshUser() was
\* suspended during the lifetime of this one
Call(op, pc, currentUser, session) ==
    [op |-> op, pc |-> pc, currentUser |-> currentUser, session |-> session,
     owner |-> "none", overlapped |-> FALSE]

\* a completed call: `raised' tells that it ended by throwing to its caller,
\* `owner' and `overlapped' are those of the call
Event(op, outcome, session) ==
    [op |-> op, outcome |-> outcome, session |-> session,
     raised |-> FALSE, overlapped |-> FALSE, owner |-> "none"]

NoRequest == [path |-> <<>>, jar |-> NoCookies]

NoResponse == Response("none", <<>>, <<>>)

With(b, c) == b (+) SetToBag({c})

Without(b, c) == b (-) SetToBag({c})

Suspend(c) == calls' = With(calls, c)

Resume(c, d) == calls' = With(Without(calls, c), d)

Finish(c) == calls' = Without(calls, c)

InFlight == BagToSet(calls)

RefreshCalls(b) == { c \in BagToSet(b) : c.op = "refreshUser" }

\* the bag b with every refreshUser call marked as overlapped
MarkOverlapped(b) ==
    LET Mark(c) == IF c.op = "refreshUser" THEN [c EXCEPT !.overlapped = TRUE] ELSE c
        Clear(c) == [c EXCEPT !.overlapped = FALSE]
    IN  [ d \in { Mark(c) : c \in BagToSet(b) } |->
            CopiesIn(d, b)
            + (IF d.op = "refreshUser" /\ d.overlapped THEN CopiesIn(Clear(d), b) ELSE 0) ]

\* the bag b after `owner' has called refreshUser(), which suspends at
\* `await getCurrentUser()'
WithRefresh(b, owner) ==
    LET overlap == RefreshCalls(b) # {}
        c == [Call("refreshUser", "getCurrentUser", NoCurrentUser, NoTokens)
                EXCEPT !.owner = owner, !.overlapped = overlap]
    IN  With(IF overlap THEN MarkOverlapped(b) ELSE b, c)

----------------------------------------------------------------------------
(* Pages *)

\* the shortest new password the login page accepts
MinPasswordLength == 12
\* the shortest new password the reset-password page accepts
ResetMinPasswordLength == 12

\* the string of n characters ch
Repeat(ch, n) == [ i \in 1..n |-> ch ]

\* the messages the pages show
MismatchMessage == "Passwords do not match"
TooShortMessage == "Password must be at least 12 characters"
ProviderMessage == "err.message"
PermissionMessage == "You do not have permission to access that page."

\* LoginPage's state and the handler's position
LoginPageInit ==
    [pc |-> "idle", error |-> "", loading |-> FALSE, needsPasswordChange |-> FALSE,
     newPassword |-> <<>>, confirmPassword |-> <<>>]

\* ResetPasswordPage's state, the handler's position and the pending
\* setTimeout callbacks
ResetPasswordPageInit ==
    [pc |-> "idle", error |-> "", loading |-> FALSE, success |-> FALSE,
     newPassword |-> <<>>, confirmPassword |-> <<>>, timers |-> 0]

\* DashboardPage's state, the query of its address and the pending
\* setTimeout callbacks
DashboardPageInit ==
    [search |-> <<>>, errorMessage |-> "", timers |-> 0]

PagesInit ==
    /\ loginPage = LoginPageInit
    /\ resetPage = ResetPasswordPageInit
    /\ dashboardPage = DashboardPageInit
    /\ openMenu = NoMenu

StoreInit ==
    /\ user = NULL
    /\ loading = TRUE
    /\ cookies = NoCookies
    /\ calls = EmptyBag
    /\ last = Event("none", "none", NoTokens)

----------------------------------------------------------------------------
(* Auth State Store operations *)

Init ==
    /\ StoreInit
    /\ request = NoRequest
    /\ response = NoResponse
    /\ PagesInit

\* refreshUser() is called and suspends at `await getCurrentUser()'
refreshUser_call ==
    /\ BagCardinality(calls) < MaxInFlight
    /\ calls' = WithRefresh(calls, "none")
    /\ UNCHANGED <<user, loading, cookies, last, request, response, pages>>

\* getCurrentUser() resolves; suspends at `await fetchAuthSession()'
refreshUser_getCurrentUser ==
    \E c \in InFlight, cu \in CurrentUsers :
        /\ c.op = "refreshUser" /\ c.pc = "getCurrentUser"
        /\ Resume(c, [c EXCEPT !.pc = "fetchAuthSession", !.currentUser = cu])
        /\ UNCHANGED <<user, loading, cookies, last, request, response, pages>>

\* fetchAuthSession() resolves with one of `sessions'; suspends at
\* `await fetchUserAttributes()'
FetchAuthSession(sessions) ==
    \E c \in InFlight, s \in sessions :
        /\ c.op = "refreshUser" /\ c.pc = "fetchAuthSession"
        /\ Resume(c, [c EXCEPT !.pc = "fetchUserAttributes", !.session = s])
        /\ UNCHANGED <<user, loading, cookies, last, request, response, pages>>

refreshUser_fetchAuthSession == FetchAuthSession(Sessions)

\* the rest of refreshUser once fetchUserAttributes() has resolved:
\* setAuthCookies, setUser, finally setLoading(false)
RefreshResolved(c, email) ==
    /\ c.op = "refreshUser" /\ c.pc = "fetchUserAttributes"
    /\ cookies' = setAuthCookies(c.session, cookies)
    /\ user' = User(c.currentUser, c.session, email)
    /\ loading' = FALSE
    /\ Finish(c)
    /\ last' = [Event("refreshUser", "ok", c.session)
                  EXCEPT !.overlapped = c.overlapped, !.owner = c.owner]

\* the rest of refreshUser once one of its provider calls has rejected:
\* catch setUser(null), finally setLoading(false)
RefreshRejected(c) ==
    /\ c.op = "refreshUser"
    /\ user' = NULL
    /\ loading' = FALSE
    /\ cookies' = cookies
    /\ Finish(c)
    /\ last' = [Event("refreshUser", c.pc, NoTokens)
                  EXCEPT !.overlapped = c.overlapped, !.owner = c.owner]

\* variant: a user that is already set is kept
refreshUser_fetchUserAttributes_keepFirst ==
    \E c \in InFlight, email \in AttributeEmails :
        /\ c.owner = "none"
        /\ c.op = "refreshUser" /\ c.pc = "fetchUserAttributes"
        /\ cookies' = setAuthCookies(c.session, cookies)
        /\ user' = IF user = NULL THEN User(c.currentUser, c.session, email) ELSE user
        /\ loading' = FALSE
        /\ Finish(c)
        /\ last' = [Event("refreshUser", "ok", c.session) EXCEPT !.overlapped = c.overlapped]
        /\ UNCHANGED <<request, response, pages>>

\* fetchUserAttributes() resolves
refreshUser_fetchUserAttributes ==
    \E c \in InFlight, email \in AttributeEmails :
        /\ c.owner = "none"
        /\ RefreshResolved(c, email)
        /\ UNCHANGED <<request, response, pages>>

\* variant: the catch block does not reset the user
refreshUser_catch_keepUser ==
    \E c \in InFlight :
        /\ c.owner = "none"
        /\ c.op = "refreshUser"
        /\ loading' = FALSE
        /\ Finish(c)
        /\ last' = [Event("refreshUser", c.pc, NoTokens) EXCEPT !.overlapped = c.overlapped]
        /\ UNCHANGED <<user, cookies, request, response, pages>>

\* variant: setLoading(false) only at the end of the try block
refreshUser_catch_noFinally ==
    \E c \in InFlight :
        /\ c.owner = "none"
        /\ c.op = "refreshUser"
        /\ user' = NULL
        /\ Finish(c)
        /\ last' = [Event("refreshUser", c.pc, NoTokens) EXCEPT !.overlapped = c.overlapped]
        /\ UNCHANGED <<loading, cookies, request, response, pages>>

\* variant: the catch block rethrows
refreshUser_catch_rethrows ==
    \E c \in InFlight :
        /\ c.owner = "none"
        /\ c.op = "refreshUser"
        /\ user' = NULL
        /\ loading' = FALSE
        /\ Finish(c)
        /\ last' = [Event("refreshUser", c.pc, NoTokens)
                      EXCEPT !.overlapped = c.overlapped, !.raised = TRUE]
        /\ UNCHANGED <<cookies, request, response, pages>>

\* any of the three provider calls rejects
refreshUser_catch ==
    \E c \in InFlight :
        /\ c.owner = "none"
        /\ RefreshRejected(c)
        /\ UNCHANGED <<request, response, pages>>

\* login(email, password) is called and suspends at `await signIn()'
login_call ==
    /\ BagCardinality(calls) < MaxInFlight
    /\ Suspend(Call("login", "signIn", NoCurrentUser, NoTokens))
    /\ UNCHANGED <<user, loading, cookies, last, request, response, pages>>

\* the rest of login once signIn() has resolved: return result
LoginResolved(c, result) ==
    /\ c.op = "login"
    /\ last' = [Event("login", result, NoTokens) EXCEPT !.owner = c.owner]
    /\ UNCHANGED <<user, loading, cookies>>

\* the rest of login once signIn() has rejected: throw error
LoginRejected(c) ==
    /\ c.op = "login"
    /\ last' = [Event("login", "signIn", NoTokens)
                  EXCEPT !.raised = TRUE, !.owner = c.owner]
    /\ UNCHANGED <<user, loading, cookies>>

\* variant: login stores a user itself when signIn() reports a full sign-in
login_signIn_setsUser ==
    \E c \in InFlight, result \in SignInResults :
        /\ c.owner = "none"
        /\ c.op = "login"
        /\ Finish(c)
        /\ user' = IF result = "DONE"
                   THEN [email |-> "", userId |-> "u1", groups |-> <<>>]
                   ELSE user
        /\ last' = Event("login", result, NoTokens)
        /\ UNCHANGED <<loading, cookies, request, response, pages>>

\* signIn() resolves: login returns the result
login_signIn ==
    \E c \in InFlight, result \in SignInResults :
        /\ c.owner = "none"
        /\ LoginResolved(c, result)
        /\ Finish(c)
        /\ UNCHANGED <<request, response, pages>>

\* signIn() rejects: login rethrows
login_catch ==
    \E c \in InFlight :
        /\ c.owner = "none"
        /\ LoginRejected(c)
        /\ Finish(c)
        /\ UNCHANGED <<request, response, pages>>

\* logout() is called and suspends at `await signOut()'
logout_call ==
    /\ BagCardinality(calls) < MaxInFlight
    /\ Suspend(Call("logout", "signOut", NoCurrentUser, NoTokens))
    /\ UNCHANGED <<user, loading, cookies, last, request, response, pages>>

\* variant: the cookies are not cleared
LogoutResolved_noClear(c) ==
    /\ c.op = "logout"
    /\ user' = NULL
    /\ last' = [Event("logout", "ok", NoTokens) EXCEPT !.owner = c.owner]
    /\ UNCHANGED <<loading, cookies>>

\* the rest of logout once signOut() has resolved: clearAuthCookies, setUser(null)
LogoutResolved(c) ==
    /\ c.op = "logout"
    /\ cookies' = clearAuthCookies(cookies)
    /\ user' = NULL
    /\ last' = [Event("logout", "ok", NoTokens) EXCEPT !.owner = c.owner]
    /\ UNCHANGED loading

\* the rest of logout once signOut() has rejected: throw error
LogoutRejected(c) ==
    /\ c.op = "logout"
    /\ last' = [Event("logout", "signOut", NoTokens)
                  EXCEPT !.raised = TRUE, !.owner = c.owner]
    /\ UNCHANGED <<user, loading, cookies>>

\* signOut() resolves
logout_signOut ==
    \E c \in InFlight :
        /\ c.owner = "none"
        /\ LogoutResolved(c)
        /\ Finish(c)
        /\ UNCHANGED <<request, response, pages>>

\* signOut() rejects: logout rethrows, nothing is cleared
logout_catch ==
    \E c \in InFlight :
        /\ c.owner = "none"
        /\ LogoutRejected(c)
        /\ Finish(c)
        /\ UNCHANGED <<request, response, pages>>

\* the Route Guard answers the request
middleware_handle ==
    /\ request # NoRequest
    /\ response = NoResponse
    /\ response' = middleware(request.path, request.jar)
    /\ UNCHANGED <<user, loading, cookies, calls, last, request, pages>>

Next ==
    \/ refreshUser_call
    \/ refreshUser_getCurrentUser
    \/ refreshUser_fetchAuthSession
    \/ refreshUser_fetchUserAttributes
    \/ refreshUser_catch
    \/ login_call
    \/ login_signIn
    \/ login_catch
    \/ logout_call
    \/ logout_signOut
    \/ logout_catch

Spec == Init /\ [][Next]_vars

----------------------------------------------------------------------------
(* The site: the pages in a browser tab, the store they share, and the *)
(* Route Guard answering the tab's requests                            *)

\* the pages a user opens by a link
NavPaths == { DashboardRoute, ImplementationRoute, AdminRoute, LoginRoute }

\* the sessions the provider holds for the users of the site
SiteSessions ==
    { NoTokens } \cup
    { [accessToken |-> "jwt", idToken |-> "jwt", claim |-> [present |-> TRUE, groups |-> <<g>>]] :
        g \in GroupNames }

\* the address the tab ends at: the requested one, or the one it is
\* redirected to
Landing(req, resp) ==
    IF resp.kind = "redirect"
    THEN [pathname |-> resp.pathname, search |-> resp.search]
    ELSE [pathname |-> req.path, search |-> <<>>]

Location == Landing(request, response)

Shown(route) == Location.pathname = route

\* LoginPage when the tab moves from `from' to `to': mounted afresh on
\* arrival, kept while the address stays /login or a handler of it is running
LoginPageAt(page, from, to) ==
    IF page.pc # "idle" \/ (from.pathname = LoginRoute /\ to.pathname = LoginRoute)
    THEN page
    ELSE LoginPageInit

\* ResetPasswordPage likewise; its timers outlive it
ResetPasswordPageAt(page, from, to) ==
    IF page.pc # "idle" \/ (from.pathname = ResetPasswordRoute /\ to.pathname = ResetPasswordRoute)
    THEN page
    ELSE [ResetPasswordPageInit EXCEPT !.timers = page.timers]

\* DashboardPage's effect on [searchParams]: the banner and its timer
DashboardPage_useEffect(page, search) ==
    IF SearchParamsGet(search, ErrorKey) = Unauthorized
    THEN [page EXCEPT !.search = search, !.errorMessage = PermissionMessage,
                      !.timers = @ + 1]
    ELSE [page EXCEPT !.search = search]

\* DashboardPage likewise; the effect runs on mount and when the query changes
DashboardPageAt(page, from, to) ==
    IF to.pathname # DashboardRoute
    THEN [DashboardPageInit EXCEPT !.timers = page.timers]
    ELSE IF from.pathname # DashboardRoute
    THEN DashboardPage_useEffect([DashboardPageInit EXCEPT !.timers = page.timers], to.search)
    ELSE IF to.search # page.search
    THEN DashboardPage_useEffect(page, to.search)
    ELSE page

\* the tab requests path p with the cookie jar `jar', the Route Guard answers,
\* and the pages p1, p2, p3 follow the tab to the address it lands at
Navigate(p, jar, p1, p2, p3) ==
    LET req == [path |-> p, jar |-> jar]
        resp == middleware(p, jar)
        to == Landing(req, resp)
    IN  /\ request' = req
        /\ response' = resp
        /\ loginPage' = LoginPageAt(p1, Location, to)
        /\ resetPage' = ResetPasswordPageAt(p2, Location, to)
        /\ dashboardPage' = DashboardPageAt(p3, Location, to)
        /\ dashboardPage'.timers <= MaxTimers
        /\ UNCHANGED openMenu

OwnedBy(owner, op) == { c \in InFlight : c.owner = owner /\ c.op = op }

\* the site once a first page, one of `paths', is requested and AuthProvider
\* is mounted: its effect has called refreshUser()
SiteInit(paths) ==
    /\ user = NULL
    /\ loading = TRUE
    /\ cookies = NoCookies
    /\ calls = WithRefresh(EmptyBag, "none")
    /\ last = Event("none", "none", NoTokens)
    /\ \E p \in paths :
        LET to == Landing([path |-> p, jar |-> NoCookies], middleware(p, NoCookies))
        IN  /\ request = [path |-> p, jar |-> NoCookies]
            /\ response = middleware(p, NoCookies)
            /\ loginPage = LoginPageAt(LoginPageInit, Landing(NoRequest, NoResponse), to)
            /\ resetPage = ResetPasswordPageInit
            /\ dashboardPage = DashboardPageAt(DashboardPageInit, Landing(NoRequest, NoResponse), to)
    /\ openMenu = NoMenu

InitSite == SiteInit(NavPaths)

site_fetchAuthSession == FetchAuthSession(SiteSessions)

\* a link is followed
navigate ==
    \E p \in NavPaths :
        /\ Navigate(p, cookies, loginPage, resetPage, dashboardPage)
        /\ UNCHANGED <<user, loading, cookies, calls, last>>

\* LoginPage.handleSubmit: setError(""), setLoading(true), await login()
handleSubmit_call ==
    /\ BagCardinality(calls) < MaxSiteInFlight
    /\ Shown(LoginRoute)
    /\ loginPage.pc = "idle"
    /\ ~loginPage.needsPasswordChange
    /\ Suspend([Call("login", "signIn", NoCurrentUser, NoTokens) EXCEPT !.owner = "handleSubmit"])
    /\ loginPage' = [loginPage EXCEPT !.pc = "login", !.error = "", !.loading = TRUE]
    /\ UNCHANGED <<user, loading, cookies, last, request, response, resetPage, dashboardPage, openMenu>>

\* variant: after a full sign-in the destination is pushed at once, without
\* a refresh
handleSubmit_login_noRefresh ==
    \E c \in OwnedBy("handleSubmit", "login"), result \in SignInResults :
        /\ LoginResolved(c, result)
        /\ Finish(c)
        /\ IF result = "DONE"
           THEN Navigate(IF SearchParamsGet(Location.search, RedirectKey) # <<>>
                         THEN SearchParamsGet(Location.search, RedirectKey)
                         ELSE DashboardRoute,
                         cookies',
                         [loginPage EXCEPT !.pc = "idle", !.loading = FALSE],
                         resetPage, dashboardPage)
           ELSE /\ loginPage' = [loginPage EXCEPT !.pc = "idle", !.loading = FALSE,
                                   !.needsPasswordChange =
                                       (result = "CONFIRM_SIGN_IN_WITH_NEW_PASSWORD_REQUIRED")]
                /\ UNCHANGED <<request, response, resetPage, dashboardPage, openMenu>>

\* login() returns: the challenge, a full sign-in (await refreshUser()), or
\* another next step
handleSubmit_login ==
    \E c \in OwnedBy("handleSubmit", "login"), result \in SignInResults :
        /\ LoginResolved(c, result)
        /\ IF result = "CONFIRM_SIGN_IN_WITH_NEW_PASSWORD_REQUIRED"
           THEN /\ Finish(c)
                /\ loginPage' = [loginPage EXCEPT !.pc = "idle", !.loading = FALSE,
                                                  !.needsPasswordChange = TRUE]
           ELSE IF result = "DONE"
           THEN /\ calls' = WithRefresh(Without(calls, c), "handleSubmit")
                /\ loginPage' = [loginPage EXCEPT !.pc = "refreshUser"]
           ELSE /\ Finish(c)
                /\ loginPage' = [loginPage EXCEPT !.pc = "idle", !.loading = FALSE]
        /\ UNCHANGED <<request, response, resetPage, dashboardPage, openMenu>>

\* login() throws: setError(err.message), finally setLoading(false)
handleSubmit_catch ==
    \E c \in OwnedBy("handleSubmit", "login") :
        /\ LoginRejected(c)
        /\ Finish(c)
        /\ loginPage' = [loginPage EXCEPT !.pc = "idle", !.loading = FALSE,
                                          !.error = ProviderMessage]
        /\ UNCHANGED <<request, response, resetPage, dashboardPage, openMenu>>

\* variant: the redirect parameter is ignored
RedirectTarget_dashboard(search) == DashboardRoute

\* new URLSearchParams(window.location.search).get("redirect") || "/dashboard"
RedirectTarget(search) ==
    IF SearchParamsGet(search, RedirectKey) # <<>>
    THEN SearchParamsGet(search, RedirectKey)
    ELSE DashboardRoute

\* refreshUser() returns to the handler `owner' of LoginPage:
\* router.push(redirect), finally setLoading(false)
Refreshed(owner) ==
    \E c \in OwnedBy(owner, "refreshUser") :
        /\ \/ \E email \in AttributeEmails : RefreshResolved(c, email)
           \/ RefreshRejected(c)
        /\ Navigate(RedirectTarget(Location.search), cookies',
                    [loginPage EXCEPT !.pc = "idle", !.loading = FALSE],
                    resetPage, dashboardPage)

handleSubmit_refreshUser == Refreshed("handleSubmit")

\* UserMenu.handleLogout: await logout()
handleLogout_call ==
    /\ BagCardinality(calls) < MaxSiteInFlight
    /\ user # NULL
    /\ Suspend([Call("logout", "signOut", NoCurrentUser, NoTokens) EXCEPT !.owner = "handleLogout"])
    /\ UNCHANGED <<user, loading, cookies, last, request, response, pages>>

\* DashboardPage.handleLogout: await logout()
DashboardPage_handleLogout_call ==
    /\ BagCardinality(calls) < MaxSiteInFlight
    /\ Shown(DashboardRoute)
    /\ ~loading
    /\ Suspend([Call("logout", "signOut", NoCurrentUser, NoTokens) EXCEPT !.owner = "handleLogout"])
    /\ UNCHANGED <<user, loading, cookies, last, request, response, pages>>

\* logout() returns: router.push("/login")
handleLogout_logout ==
    \E c \in OwnedBy("handleLogout", "logout") :
        /\ LogoutResolved(c)
        /\ Finish(c)
        /\ Navigate(LoginRoute, cookies', loginPage, resetPage, dashboardPage)

\* logout() throws: handleLogout ends with the exception, nothing is pushed
handleLogout_throw ==
    \E c \in OwnedBy("handleLogout", "logout") :
        /\ LogoutRejected(c)
        /\ Finish(c)
        /\ UNCHANGED <<request, response, pages>>

\* the timer armed by DashboardPage's effect fires:
\* setErrorMessage(""), router.replace("/dashboard")
DashboardPage_setTimeout ==
    /\ dashboardPage.timers > 0
    /\ Navigate(DashboardRoute, cookies, loginPage, resetPage,
                [dashboardPage EXCEPT !.errorMessage = "", !.timers = @ - 1])
    /\ UNCHANGED <<user, loading, cookies, calls, last>>

\* what is typed into the password fields
Passwords == { Repeat("a", n) : n \in { MinPasswordLength - 1, MinPasswordLength } }

\* variant: the length of the new password is not looked at
handlePasswordChange_validation_anyLength(newPassword, confirmPassword) ==
    IF newPassword # confirmPassword
    THEN MismatchMessage
    ELSE ""

\* LoginPage.handlePasswordChange, the two checks: the error to show, or ""
handlePasswordChange_validation(newPassword, confirmPassword) ==
    IF newPassword # confirmPassword
    THEN MismatchMessage
    ELSE IF Len(newPassword) < MinPasswordLength
    THEN TooShortMessage
    ELSE ""

\* LoginPage.handlePasswordChange, the new-password form filled in and
\* submitted: setError(""), the checks, setLoading(true), await confirmSignIn()
handlePasswordChange ==
    \E newPassword \in Passwords, confirmPassword \in Passwords :
    LET error == handlePasswordChange_validation(newPassword, confirmPassword)
        page == [loginPage EXCEPT !.newPassword = newPassword,
                                  !.confirmPassword = confirmPassword]
    IN  /\ Shown(LoginRoute)
        /\ loginPage.pc = "idle"
        /\ loginPage.needsPasswordChange
        /\ IF error # ""
           THEN /\ loginPage' = [page EXCEPT !.error = error]
                /\ UNCHANGED calls
           ELSE /\ BagCardinality(calls) < MaxSiteInFlight
                /\ Suspend([Call("confirmSignIn", "confirmSignIn", NoCurrentUser, NoTokens)
                              EXCEPT !.owner = "handlePasswordChange"])
                /\ loginPage' = [page EXCEPT !.pc = "confirmSignIn", !.error = "",
                                             !.loading = TRUE]
        /\ UNCHANGED <<user, loading, cookies, last, request, response,
                       resetPage, dashboardPage, openMenu>>

\* confirmSignIn() resolves: await refreshUser()
handlePasswordChange_confirmSignIn ==
    \E c \in OwnedBy("handlePasswordChange", "confirmSignIn") :
        /\ calls' = WithRefresh(Without(calls, c), "handlePasswordChange")
        /\ loginPage' = [loginPage EXCEPT !.pc = "refreshUser"]
        /\ UNCHANGED <<user, loading, cookies, last, request, response,
                       resetPage, dashboardPage, openMenu>>

\* confirmSignIn() rejects: setError(err.message), finally setLoading(false)
handlePasswordChange_catch ==
    \E c \in OwnedBy("handlePasswordChange", "confirmSignIn") :
        /\ Finish(c)
        /\ loginPage' = [loginPage EXCEPT !.pc = "idle", !.loading = FALSE,
                                          !.error = ProviderMessage]
        /\ UNCHANGED <<user, loading, cookies, last, request, response,
                       resetPage, dashboardPage, openMenu>>

handlePasswordChange_refreshUser == Refreshed("handlePasswordChange")

\* ResetPasswordPage.handleSubmit, the two checks: the error to show, or ""
ResetPasswordPage_validation(newPassword, confirmPassword) ==
    IF newPassword # confirmPassword
    THEN MismatchMessage
    ELSE IF Len(newPassword) < ResetMinPasswordLength
    THEN TooShortMessage
    ELSE ""

\* ResetPasswordPage.handleSubmit, the form filled in and submitted:
\* setError(""), the checks, setLoading(true), await confirmResetPassword()
ResetPasswordPage_handleSubmit ==
    \E newPassword \in Passwords, confirmPassword \in Passwords :
    LET error == ResetPasswordPage_validation(newPassword, confirmPassword)
        page == [resetPage EXCEPT !.newPassword = newPassword,
                                  !.confirmPassword = confirmPassword]
    IN  /\ Shown(ResetPasswordRoute)
        /\ resetPage.pc = "idle"
        /\ ~resetPage.success
        /\ IF error # ""
           THEN /\ resetPage' = [page EXCEPT !.error = error]
                /\ UNCHANGED calls
           ELSE /\ BagCardinality(calls) < MaxSiteInFlight
                /\ Suspend([Call("confirmResetPassword", "confirmResetPassword",
                                 NoCurrentUser, NoTokens)
                              EXCEPT !.owner = "ResetPasswordPage"])
                /\ resetPage' = [page EXCEPT !.pc = "confirmResetPassword",
                                             !.error = "", !.loading = TRUE]
        /\ UNCHANGED <<user, loading, cookies, last, request, response,
                       loginPage, dashboardPage, openMenu>>

\* confirmResetPassword() resolves: setSuccess(true), setTimeout(...),
\* finally setLoading(false)
ResetPasswordPage_confirmResetPassword ==
    \E c \in OwnedBy("ResetPasswordPage", "confirmResetPassword") :
        /\ resetPage.timers < MaxTimers
        /\ Finish(c)
        /\ resetPage' = [resetPage EXCEPT !.pc = "idle", !.loading = FALSE,
                                          !.success = TRUE, !.timers = @ + 1]
        /\ UNCHANGED <<user, loading, cookies, last, request, response,
                       loginPage, dashboardPage, openMenu>>

\* confirmResetPassword() rejects: setError(err.message), finally
\* setLoading(false)
ResetPasswordPage_catch ==
    \E c \in OwnedBy("ResetPasswordPage", "confirmResetPassword") :
        /\ Finish(c)
        /\ resetPage' = [resetPage EXCEPT !.pc = "idle", !.loading = FALSE,
                                          !.error = ProviderMessage]
        /\ UNCHANGED <<user, loading, cookies, last, request, response,
                       loginPage, dashboardPage, openMenu>>

\* the timer armed after a reset fires: router.push("/login")
ResetPasswordPage_setTimeout ==
    /\ resetPage.timers > 0
    /\ Navigate(LoginRoute, cookies, loginPage,
                [resetPage EXCEPT !.timers = @ - 1], dashboardPage)
    /\ UNCHANGED <<user, loading, cookies, calls, last>>

NextSite ==
    \/ refreshUser_getCurrentUser
    \/ site_fetchAuthSession
    \/ refreshUser_fetchUserAttributes
    \/ refreshUser_catch
    \/ navigate
    \/ handleSubmit_call
    \/ handleSubmit_login
    \/ handleSubmit_catch
    \/ handleSubmit_refreshUser
    \/ handlePasswordChange
    \/ handlePasswordChange_confirmSignIn
    \/ handlePasswordChange_catch
    \/ handlePasswordChange_refreshUser
    \/ handleLogout_call
    \/ DashboardPage_handleLogout_call
    \/ handleLogout_logout
    \/ handleLogout_throw
    \/ DashboardPage_setTimeout

SpecSite == InitSite /\ [][NextSite]_vars

----------------------------------------------------------------------------
(* The Header: the navigation sections derived from the user, and the one *)
(* whose dropdown is open                                                  *)

\* groups.includes(g)
includes(groups, g) == \E i \in 1..Len(groups) : groups[i] = g

BaseSectionKeys == { "Services", "Solutions", "Resources" }

\* the items listed under a section
SectionItems(key) ==
    CASE key = "Services" -> <<"Discovery", "AI Solutions", "Support">>
      [] key = "Solutions" -> <<"Browse All", "Case Studies">>
      [] key = "Resources" -> <<"Documentation", "Technical Overview",
                                "Security & Privacy", "FAQ">>
      [] key = "Dashboard" -> <<"Overview">>
      [] key = "Discovery Tools" -> <<"Sessions", "Reports">>
      [] key = "Implementation" -> <<"Chat", "Documents", "Analytics">>

\* const sections = user ? { ...baseSections, Dashboard, ... } : baseSections
sections(u) ==
    IF u # NULL
    THEN [key \in BaseSectionKeys \cup { "Dashboard" }
                 \cup (IF includes(u.groups, "DiscoveryAdmin")
                          \/ includes(u.groups, "DataWovenAdmin")
                       THEN { "Discovery Tools" } ELSE {})
                 \cup (IF includes(u.groups, "ImplementationUser")
                          \/ includes(u.groups, "DataWovenAdmin")
                       THEN { "Implementation" } ELSE {})
            |-> SectionItems(key)]
    ELSE [key \in BaseSectionKeys |-> SectionItems(key)]

\* the height of the open dropdown, computed at every render
dropdownHeight ==
    IF openMenu # NoMenu THEN Len(sections(user)[openMenu]) * 40 ELSE 0

\* the pointer enters the entry of a section that is rendered: setOpenMenu(k)
Header_onMouseEnter ==
    \E k \in DOMAIN sections(user) :
        /\ openMenu' = k
        /\ UNCHANGED <<user, loading, cookies, calls, last, request, response,
                       loginPage, resetPage, dashboardPage>>

\* the pointer leaves the header: setOpenMenu(null)
Header_onMouseLeave ==
    /\ openMenu' = NoMenu
    /\ UNCHANGED <<user, loading, cookies, calls, last, request, response,
                   loginPage, resetPage, dashboardPage>>

\* an item of the open dropdown is clicked: setOpenMenu(null)
Link_onClick ==
    /\ openMenu \in DOMAIN sections(user)
    /\ openMenu' = NoMenu
    /\ UNCHANGED <<user, loading, cookies, calls, last, request, response,
                   loginPage, resetPage, dashboardPage>>

InitHeader == SiteInit(NavPaths)

NextHeader ==
    \/ refreshUser_getCurrentUser
    \/ site_fetchAuthSession
    \/ refreshUser_fetchUserAttributes
    \/ refreshUser_catch
    \/ handleLogout_call
    \/ handleLogout_logout
    \/ handleLogout_throw
    \/ Header_onMouseEnter
    \/ Header_onMouseLeave
    \/ Link_onClick

SpecHeader == InitHeader /\ [][NextHeader]_vars

----------------------------------------------------------------------------
(* The two forms that take a new password: LoginPage after the challenge, *)
(* and ResetPasswordPage                                                  *)

FormPaths == { LoginRoute, ResetPasswordRoute }

InitForms == SiteInit(FormPaths)

NextForms ==
    \/ refreshUser_getCurrentUser
    \/ site_fetchAuthSession
    \/ refreshUser_fetchUserAttributes
    \/ refreshUser_catch
    \/ handleSubmit_call
    \/ handleSubmit_login
    \/ handleSubmit_catch
    \/ handleSubmit_refreshUser
    \/ handlePasswordChange
    \/ handlePasswordChange_confirmSignIn
    \/ handlePasswordChange_catch
    \/ handlePasswordChange_refreshUser
    \/ ResetPasswordPage_handleSubmit
    \/ ResetPasswordPage_confirmResetPassword
    \/ ResetPasswordPage_catch
    \/ ResetPasswordPage_setTimeout

SpecForms == InitForms /\ [][NextForms]_vars

----------------------------------------------------------------------------
(* The user menu *)

\* user.groups.includes("DataWovenAdmin"): the Admin Panel link is rendered
isAdmin(u) == \E i \in 1..Len(u.groups) : u.groups[i] = AdminGroup

----------------------------------------------------------------------------
(* The store when logout() is called during a refreshUser(): one refresh at *)
(* a time, a logout only while it is suspended, and nothing new once the    *)
(* logout has ended                                                         *)

LogoutCalls(b) == { c \in BagToSet(b) : c.op = "logout" }

\* refreshUser() is called while nothing else runs
race_refreshUser_call ==
    /\ calls = EmptyBag
    /\ last.op # "logout"
    /\ calls' = WithRefresh(calls, "none")
    /\ UNCHANGED <<user, loading, cookies, last, request, response, pages>>

\* logout() is called while the refresh is suspended
race_logout_call ==
    /\ RefreshCalls(calls) # {}
    /\ LogoutCalls(calls) = {}
    /\ last.op # "logout"
    /\ Suspend(Call("logout", "signOut", NoCurrentUser, NoTokens))
    /\ UNCHANGED <<user, loading, cookies, last, request, response, pages>>

NextRace ==
    \/ race_refreshUser_call
    \/ refreshUser_getCurrentUser
    \/ refreshUser_fetchAuthSession
    \/ refreshUser_fetchUserAttributes
    \/ refreshUser_catch
    \/ race_logout_call
    \/ logout_signOut
    \/ logout_catch

SpecRace == Init /\ [][NextRace]_vars

----------------------------------------------------------------------------
(* The Route Guard alone, on every request a client can send *)

CookieTokenValues == { Absent, "", "jwt" }

CookieGroupValues ==
    { Absent, "", "none", "DataWovenAdmin", "datawovenadmin", "ImplementationUser" }

Jars ==
    [accessToken : CookieTokenValues, idToken : CookieTokenValues,
     userGroup : CookieGroupValues]

InitGuard ==
    /\ StoreInit
    /\ request \in [path : Paths, jar : Jars]
    /\ response = NoResponse
    /\ PagesInit

NextGuard == middleware_handle

SpecGuard == InitGuard /\ [][NextGuard]_vars

----------------------------------------------------------------------------
(* The Cookie Bridge alone, on every cookie jar and every token argument *)

InitBridge ==
    /\ user = NULL
    /\ loading = TRUE
    /\ cookies \in Jars
    /\ calls = EmptyBag
    /\ last = Event("none", "none", NoTokens)
    /\ request = NoRequest
    /\ response = NoResponse
    /\ PagesInit

\* setAuthCookies(tokens) is called
setAuthCookies_call(tokens) ==
    /\ cookies' = setAuthCookies(tokens, cookies)
    /\ last' = Event("setAuthCookies", "ok", tokens)
    /\ UNCHANGED <<user, loading, calls, request, response, pages>>

\* clearAuthCookies() is called
clearAuthCookies_call ==
    /\ cookies' = clearAuthCookies(cookies)
    /\ last' = Event("clearAuthCookies", "ok", NoTokens)
    /\ UNCHANGED <<user, loading, calls, request, response, pages>>

NextBridge ==
    \/ \E tokens \in Sessions : setAuthCookies_call(tokens)
    \/ clearAuthCookies_call

SpecBridge == InitBridge /\ [][NextBridge]_vars

CookieValues == CookieTokenValues \cup CookieGroupValues

\* C11: write and clear can be called on every cookie jar with every
\* argument (absent tokens and an absent group claim included) and leave a
\* cookie jar; a write repeated with the same argument, and a clear repeated,
\* change nothing.
C11_BridgeIsTotalAndIdempotent ==
    /\ [](/\ \A tokens \in Sessions : ENABLED setAuthCookies_call(tokens)
          /\ ENABLED clearAuthCookies_call
          /\ cookies \in [accessToken : CookieValues, idToken : CookieValues,
                          userGroup : CookieValues])
    /\ [][(/\ last.op = "setAuthCookies"
           /\ last'.op = "setAuthCookies"
           /\ last'.session = last.session) => cookies' = cookies]_vars
    /\ [][(last.op = "clearAuthCookies" /\ last'.op = "clearAuthCookies")
            => cookies' = cookies]_vars

C11_Witness ==
    /\ last.op = "setAuthCookies"
    /\ last.session.accessToken # Absent
    /\ last.session.idToken = Absent
    /\ ~last.session.claim.present
    /\ cookies.accessToken = ""
    /\ cookies.userGroup = "datawovenadmin"

----------------------------------------------------------------------------
(* Properties of the Route Guard, checked under SpecGuard *)

ProtectedPrefixes ==
    { DashboardRoute, DiscoveryRoute, ImplementationRoute, AccountRoute, AdminRoute }

Protected(p) == \E r \in ProtectedPrefixes : StartsWith(p, r)

Handled == response # NoResponse

MarkersAbsent(jar) == jar.accessToken = Absent /\ jar.idToken = Absent

MarkersPresent(jar) == jar.accessToken # Absent /\ jar.idToken # Absent

\* C1: a request for a protected path with both token-marker cookies absent
\* is redirected to /login with the query parameter redirect=<path>, whatever
\* the primary-group cookie holds; it is never continued.
C1_ProtectedWithoutMarkersGoesToLogin ==
    (Handled /\ Protected(request.path) /\ MarkersAbsent(request.jar))
        => /\ response.kind = "redirect"
           /\ response.pathname = LoginRoute
           /\ SearchParamsGet(response.search, RedirectKey) = request.path

C1_Witness ==
    /\ Handled
    /\ request.path = AccountRoute \o <<"/", "x">>
    /\ MarkersAbsent(request.jar)
    /\ request.jar.userGroup = AdminGroup
    /\ response.kind = "redirect"

\* C2: a request for a path starting with /admin with both token-marker
\* cookies present and a primary-group cookie that is absent or differs from
\* the exact string DataWovenAdmin is redirected to /dashboard with the query
\* parameter error=unauthorized.
C2_AdminWithoutAdminGroupIsUnauthorized ==
    (/\ Handled
     /\ StartsWith(request.path, AdminRoute)
     /\ MarkersPresent(request.jar)
     /\ request.jar.userGroup # "DataWovenAdmin")
        => /\ response.kind = "redirect"
           /\ response.pathname = DashboardRoute
           /\ SearchParamsGet(response.search, ErrorKey) = Unauthorized

C2_Witness ==
    /\ Handled
    /\ request.path = AdminRoute \o <<"/", "x">>
    /\ MarkersPresent(request.jar)
    /\ request.jar.userGroup = "datawovenadmin"
    /\ response.pathname = DashboardRoute

\* C3: a request for /login is redirected to /dashboard exactly when both
\* token-marker cookies are present; with a marker absent it is continued,
\* whatever the primary-group cookie holds.
C3_LoginRedirectsIffMarkersPresent ==
    (Handled /\ request.path = LoginRoute)
        => /\ (response.kind = "redirect" /\ response.pathname = DashboardRoute)
                <=> MarkersPresent(request.jar)
           /\ ~MarkersPresent(request.jar) => response.kind = "next"

C3_Witness ==
    /\ Handled
    /\ request.path = LoginRoute
    /\ request.jar.accessToken # Absent
    /\ request.jar.idToken = Absent
    /\ request.jar.userGroup = AdminGroup
    /\ response.kind = "next"

----------------------------------------------------------------------------
(* Properties of the Auth State Store and the Cookie Bridge, under Spec *)

RefreshFailures == { "getCurrentUser", "fetchAuthSession", "fetchUserAttributes" }

RefreshSucceeded == last.op = "refreshUser" /\ last.outcome = "ok"

RefreshFailed == last.op = "refreshUser" /\ last.outcome \in RefreshFailures

\* a step in which a suspended call finishes
Completion == BagCardinality(calls') < BagCardinality(calls)

\* C4: whenever both token-marker cookies are present the Session is not empty.
C4_CookiesImplySession ==
    MarkersPresent(cookies) => user # NULL

\* C5: when logout() has finished, by returning or by raising, the Session
\* is empty and the three cookies are cleared.
C5_LogoutAlwaysClears ==
    last.op = "logout" => (user = NULL /\ cookies = NoCookies)

\* C6: a refresh() one of whose provider calls fails finishes with the
\* Session empty, whatever it was, and changes nothing else but the loading
\* flag, which it leaves false: no detail of the failure is stored.
C6_FailedRefreshEmptiesSession ==
    [][(Completion /\ last'.op = "refreshUser" /\ last'.outcome \in RefreshFailures)
          => (user' = NULL /\ loading' = FALSE /\ cookies' = cookies)]_vars

C6_Witness ==
    /\ RefreshFailed
    /\ last.outcome = "fetchUserAttributes"
    /\ user = NULL
    /\ MarkersPresent(cookies)

FirstOrNone(groups) == IF groups = <<>> THEN "none" ELSE Head(groups)

ProjectionMatchesSession ==
    /\ cookies.accessToken # Absent
    /\ cookies.idToken # Absent
    /\ cookies.userGroup # Absent
    /\ user # NULL
    /\ cookies.userGroup = FirstOrNone(user.groups)

\* C7 as stated: every refresh() that succeeds leaves the three cookies
\* present, the primary-group cookie being the first of the Session's groups
\* or "none".
C7_EverySuccessfulRefreshWrites ==
    RefreshSucceeded => ProjectionMatchesSession

\* C7, amended: every refresh() that succeeds with a session carrying both an
\* access token and an id token leaves the three cookies present, the
\* primary-group cookie being the first of the Session's groups or "none".
C7_SuccessfulRefreshWithTokensWrites ==
    (RefreshSucceeded /\ MarkersPresent(last.session)) => ProjectionMatchesSession

C7_Witness ==
    /\ RefreshSucceeded
    /\ MarkersPresent(last.session)
    /\ user # NULL
    /\ user.groups = <<>>
    /\ cookies.userGroup = "none"

\* C8: when a refresh() has finished, after success or after a failure of
\* any of its provider calls, the loading flag is false.
C8_RefreshLeavesLoadingFalse ==
    last.op = "refreshUser" => loading = FALSE

C8_Witness ==
    /\ last.op = "refreshUser"
    /\ last.outcome = "fetchAuthSession"
    /\ loading = FALSE

LoginCalls(b) == { c \in BagToSet(b) : c.op = "login" }

\* a step in which login() is called or finishes
LoginStep ==
    \E c \in LoginCalls(calls) \cup LoginCalls(calls') :
        CopiesIn(c, calls) # CopiesIn(c, calls')

\* C9: login() leaves the Session, the loading flag and the three cookies
\* as they are, for every outcome of the provider's sign-in.
C9_LoginChangesNothing ==
    [][LoginStep => UNCHANGED <<user, loading, cookies>>]_vars

C9_Witness ==
    /\ last.op = "login"
    /\ last.outcome = "DONE"
    /\ user = NULL
    /\ loading = TRUE
    /\ cookies = NoCookies

\* the group sequence handed to the Cookie Bridge
WrittenGroups ==
    IF last.session.claim.present THEN last.session.claim.groups ELSE <<>>

\* C10: a Cookie Bridge write with both tokens present sets the primary-group
\* cookie to the first element of the group sequence, and to "none" when the
\* sequence is empty; later elements have no influence.
C10_PrimaryGroupIsFirstElement ==
    (RefreshSucceeded /\ MarkersPresent(last.session))
        => cookies.userGroup = FirstOrNone(WrittenGroups)

C10_Witness ==
    /\ RefreshSucceeded
    /\ MarkersPresent(last.session)
    /\ WrittenGroups = <<"ImplementationUser", "DataWovenAdmin">>
    /\ cookies.userGroup = "ImplementationUser"

----------------------------------------------------------------------------
(* Further properties of the Route Guard, checked under SpecGuard *)

IsContinue(r) == r.kind = "next"

IsLoginRedirect(r, p) ==
    /\ r.kind = "redirect"
    /\ r.pathname = LoginRoute
    /\ SearchParamsGet(r.search, RedirectKey) = p

IsUnauthorizedRedirect(r) ==
    /\ r.kind = "redirect"
    /\ r.pathname = DashboardRoute
    /\ SearchParamsGet(r.search, ErrorKey) = Unauthorized

IsDashboardRedirect(r) ==
    /\ r.kind = "redirect"
    /\ r.pathname = DashboardRoute
    /\ r.search = <<>>

\* how many of the four outcomes the answer r to a request for p is
OutcomeCount(r, p) ==
    (IF IsContinue(r) THEN 1 ELSE 0)
    + (IF IsLoginRedirect(r, p) THEN 1 ELSE 0)
    + (IF IsUnauthorizedRedirect(r) THEN 1 ELSE 0)
    + (IF IsDashboardRedirect(r) THEN 1 ELSE 0)

\* C14: the Route Guard answers every request (every path, every presence of
\* the two markers, every primary-group value or none), and its answer is
\* exactly one of: continue, redirect to /login with redirect=<path>,
\* redirect to /dashboard with error=unauthorized, redirect to /dashboard.
C14_GuardIsTotal ==
    /\ (request # NoRequest /\ ~Handled) => ENABLED middleware_handle
    /\ Handled => OutcomeCount(response, request.path) = 1

C14_Witness ==
    /\ Handled
    /\ request.path = <<"/", "x">>
    /\ request.jar.accessToken = ""
    /\ request.jar.idToken = Absent
    /\ request.jar.userGroup = Absent
    /\ IsContinue(response)

SamePresence(a, b) == (a = Absent) <=> (b = Absent)

\* C20: the answer depends only on the path, on which markers are present
\* and on the primary-group value: any request for the same path that agrees
\* on these gets the same answer, whatever the two token cookies contain.
C20_TokenValuesAreOpaque ==
    Handled =>
        \A jar \in Jars :
            (/\ SamePresence(jar.accessToken, request.jar.accessToken)
             /\ SamePresence(jar.idToken, request.jar.idToken)
             /\ jar.userGroup = request.jar.userGroup)
                => middleware(request.path, jar) = response

C20_Witness ==
    /\ Handled
    /\ request.path = DashboardRoute
    /\ request.jar.accessToken = ""
    /\ request.jar.idToken = "jwt"
    /\ IsContinue(response)

----------------------------------------------------------------------------
(* Further properties of the Auth State Store, checked under Spec *)

\* the Session a completed refreshUser() described by the event e produces
SessionOf(e, u) ==
    IF e.outcome = "ok"
    THEN u # NULL /\ u.groups = (IF e.session.claim.present THEN e.session.claim.groups ELSE <<>>)
    ELSE u = NULL

\* the Cookie Projection of a session carrying both tokens
ProjectionOf(session) ==
    [accessToken |-> session.accessToken,
     idToken |-> session.idToken,
     userGroup |-> FirstOrNone(IF session.claim.present THEN session.claim.groups ELSE <<>>)]

WroteProjection(e) == e.outcome = "ok" /\ MarkersPresent(e.session)

\* C15 as stated: once two overlapping refresh() calls have both finished,
\* the Session and the Cookie Projection are those produced by the call that
\* completed last.
C15_LastCompletedRefreshWins ==
    (last.op = "refreshUser" /\ last.overlapped /\ RefreshCalls(calls) = {})
        => /\ SessionOf(last, user)
           /\ cookies # NoCookies => (WroteProjection(last) /\ cookies = ProjectionOf(last.session))

\* C15, amended: when a refresh() that overlapped another one completes, the
\* Session becomes the one it produces (empty if it failed), whichever call
\* was started first; the Cookie Projection becomes the one it writes if it
\* succeeded with both tokens, and is otherwise left as it was.
C15_LastCompletedRefreshSetsSession ==
    [][(Completion /\ last'.op = "refreshUser" /\ last'.overlapped)
          => /\ SessionOf(last', user')
             /\ cookies' = (IF WroteProjection(last') THEN ProjectionOf(last'.session) ELSE cookies)]_vars

C15_Witness ==
    /\ last.op = "refreshUser"
    /\ last.overlapped
    /\ RefreshCalls(calls) = {}
    /\ WroteProjection(last)
    /\ user # NULL
    /\ user.groups = <<"DataWovenAdmin">>
    /\ cookies.userGroup = "DataWovenAdmin"

ProviderFailed(e) == e.outcome \in RefreshFailures \cup { "signIn", "signOut" }

\* C16 as stated: when the provider call of refresh, login or logout fails,
\* the operation returns without raising and leaves the Session empty.
C16_FailuresNeverPropagate ==
    ProviderFailed(last) => (~last.raised /\ user = NULL)

\* C16, amended: a provider failure in refresh() is caught in the store,
\* refresh() returns without raising and the Session is empty; a provider
\* failure in login() or logout() is rethrown to the caller, and login()
\* leaves the Session as it was.
C16_OnlyRefreshCatchesFailures ==
    [][(Completion /\ ProviderFailed(last'))
          => /\ last'.op = "refreshUser" => (~last'.raised /\ user' = NULL)
             /\ last'.op = "login" => (last'.raised /\ user' = user)
             /\ last'.op = "logout" => last'.raised]_vars

C16_Witness ==
    /\ RefreshFailed
    /\ last.outcome = "getCurrentUser"
    /\ ~last.raised
    /\ user = NULL
    /\ cookies.userGroup = "none"

\* C19: the Session goes from empty to non-empty only when a refresh()
\* completes successfully, and from non-empty to empty only when logout()
\* completes or a refresh() completes after a failure.
C19_SessionLifecycle ==
    [][/\ (user = NULL /\ user' # NULL)
            => (Completion /\ last'.op = "refreshUser" /\ last'.outcome = "ok")
       /\ (user # NULL /\ user' = NULL)
            => /\ Completion
               /\ \/ last'.op = "logout" /\ last'.outcome = "ok"
                  \/ last'.op = "refreshUser" /\ last'.outcome \in RefreshFailures]_vars

C19_Witness ==
    /\ last.op = "logout"
    /\ last.outcome = "ok"
    /\ user = NULL
    /\ loading = FALSE
    /\ RefreshCalls(calls) # {}

----------------------------------------------------------------------------
(* The site after a logout *)

\* a call of `op' ends in this step
Completes(op) == \E c \in InFlight : c.op = op /\ calls' = Without(calls, c)

\* the Route Guard answers a request in this step
Evaluated == <<request, response>>' # <<request, response>>

SignedOut == cookies = NoCookies /\ user = NULL

\* /login?redirect=%2Fdashboard
LoginRedirectDashboard ==
    NextResponse_redirect(
        <<"/", "l", "o", "g", "i", "n">>,
        <<"r", "e", "d", "i", "r", "e", "c", "t", "=",
          "%", "2", "F", "d", "a", "s", "h", "b", "o", "a", "r", "d">>)

\* C12: a logout that completes successfully leaves the Cookie Projection
\* cleared and the Session empty; from then on, as long as no refresh
\* completes, they stay so and every request of a protected path p is
\* redirected to /login with redirect=p, a request of /dashboard to
\* /login?redirect=%2Fdashboard
C12_LogoutEndsAccess ==
    [][ /\ (Completes("logout") /\ last'.outcome = "ok") => SignedOut'
        /\ (SignedOut /\ ~Completes("refreshUser")) =>
              /\ SignedOut'
              /\ (Evaluated /\ Protected(request'.path)) =>
                    IsLoginRedirect(response', request'.path)
              /\ (Evaluated /\ request'.path = DashboardRoute) =>
                    response' = LoginRedirectDashboard ]_vars

\* a signed-in user has logged out and then asked for /dashboard
C12_Witness ==
    /\ last.op = "logout" /\ last.outcome = "ok"
    /\ last.owner = "handleLogout"
    /\ SignedOut
    /\ request.path = DashboardRoute
    /\ response = LoginRedirectDashboard

----------------------------------------------------------------------------
(* Signing in through the login page *)

\* the refresh that followed a full sign-in on the login page is the last call
\* to have completed, and it succeeded with both tokens and `groups' as the
\* group claim
SignedInWith(groups) ==
    /\ last.op = "refreshUser" /\ last.outcome = "ok"
    /\ last.owner = "handleSubmit"
    /\ last.session.accessToken # Absent /\ last.session.idToken # Absent
    /\ last.session.claim = [present |-> TRUE, groups |-> groups]

\* C13: once login() has returned a full sign-in and the refresh that follows
\* has succeeded with the tokens and group claim ["ImplementationUser"], the
\* Session holds groups ["ImplementationUser"], the primary-group cookie is
\* "ImplementationUser", and a request sent with these cookies is redirected
\* to /dashboard?error=unauthorized when it asks for /admin and continues
\* when it asks for /implementation
C13_ImplementationUserSignsIn ==
    SignedInWith(<<"ImplementationUser">>) =>
        /\ user # NULL
        /\ user.groups = <<"ImplementationUser">>
        /\ cookies.userGroup = "ImplementationUser"
        /\ (request.jar = cookies /\ request.path = AdminRoute) =>
              /\ IsUnauthorizedRedirect(response)
              /\ response.search = ErrorKey \o <<"=">> \o Unauthorized
        /\ (request.jar = cookies /\ request.path = ImplementationRoute) =>
              IsContinue(response)

\* an ImplementationUser has signed in and then asked for /admin
C13_Witness ==
    /\ SignedInWith(<<"ImplementationUser">>)
    /\ request.jar = cookies
    /\ request.path = AdminRoute
    /\ IsUnauthorizedRedirect(response)

----------------------------------------------------------------------------
(* The new-password forms *)

ValidationMessages == { MismatchMessage, TooShortMessage }

\* the claim's condition on what was typed
Rejected(newPassword, confirmPassword) ==
    newPassword # confirmPassword \/ Len(newPassword) < 12

\* the form of `page', filled in anew, is submitted in this step
Submitted(page) ==
    /\ page'.newPassword # <<>>
    /\ <<page'.newPassword, page'.confirmPassword>>
         # <<page.newPassword, page.confirmPassword>>

\* what a submission with rejected fields does: an error message, nothing
\* called, nothing navigated, loading still false
OnlyAnError(page) ==
    /\ page'.error \in ValidationMessages
    /\ page'.pc = "idle"
    /\ ~page.loading /\ ~page'.loading
    /\ calls' = calls
    /\ UNCHANGED <<request, response, user, loading, cookies, last>>

\* C17: in the new-password form of the login page and on the reset-password
\* page, a submission whose new password differs from its confirmation or is
\* shorter than 12 characters sets an error message, starts no provider call
\* and no refresh, navigates nowhere and leaves the loading flag false
C17_RejectedPasswordOnlySetsError ==
    [][ /\ ( /\ Submitted(loginPage)
             /\ Rejected(loginPage'.newPassword, loginPage'.confirmPassword) )
           => (loginPage.needsPasswordChange /\ OnlyAnError(loginPage))
        /\ ( /\ Submitted(resetPage)
             /\ Rejected(resetPage'.newPassword, resetPage'.confirmPassword) )
           => OnlyAnError(resetPage) ]_vars

\* the reset-password page has refused a password of 11 characters
C17_Witness ==
    /\ resetPage.error = TooShortMessage
    /\ Len(resetPage.newPassword) = 11
    /\ ~resetPage.loading
    /\ calls = EmptyBag

\* the login page's form has refused a confirmation that differs
C17_WitnessLogin ==
    /\ loginPage.needsPasswordChange
    /\ loginPage.error = MismatchMessage
    /\ loginPage.newPassword # loginPage.confirmPassword
    /\ ~loginPage.loading
    /\ calls = EmptyBag

----------------------------------------------------------------------------
(* The dashboard's permission banner *)

HasUnauthorized(search) == SearchParamsGet(search, ErrorKey) = Unauthorized

\* the dashboard renders the banner: the store has finished loading and
\* errorMessage is not empty
BannerDisplayed ==
    /\ Shown(DashboardRoute)
    /\ ~loading
    /\ dashboardPage.errorMessage # ""

----------------------------------------------------------------------------
(* A logout during a refresh *)

\* C21: when the refresh that was suspended while logout() was called
\* finishes after that logout has completed successfully, the Session is
\* empty and the token-marker cookies are absent
C21_LogoutIsNotUndone ==
    [][ ( /\ last.op = "logout" /\ last.outcome = "ok"
          /\ Completes("refreshUser") )
        => (user' = NULL /\ MarkersAbsent(cookies')) ]_vars

----------------------------------------------------------------------------
(* A Cookie Projection that outlives the Session *)

\* the latest refresh failed and the Session is empty, while both
\* token-marker cookies, written by an earlier refresh, are still present
StaleProjection ==
    /\ RefreshFailed
    /\ user = NULL
    /\ MarkersPresent(cookies)

\* C22: a state is reachable where the latest refresh failed and the Session
\* is empty while both token-marker cookies are present; in such a state a
\* request for a protected path outside /admin, sent with these cookies, is
\* continued by the Route Guard
C22_StaleProjectionStillOpensPages ==
    ( /\ StaleProjection
      /\ request.jar = cookies
      /\ Protected(request.path)
      /\ ~StartsWith(request.path, AdminRoute) )
    => IsContinue(response)

\* the sign-in's refresh failed after the mount's refresh had written the
\* cookies, and /dashboard was served
C22_Witness ==
    /\ StaleProjection
    /\ request.jar = cookies
    /\ request.path = DashboardRoute
    /\ IsContinue(response)

----------------------------------------------------------------------------
(* The Admin Panel link *)

\* C23: when the latest completed call is a successful refresh that wrote the
\* Cookie Projection and the user menu shows the Admin Panel link, the Route
\* Guard continues a request for /admin/monitoring sent with these cookies
C23_AdminLinkIsServed ==
    ( /\ RefreshSucceeded
      /\ MarkersPresent(cookies)
      /\ last.session.accessToken # Absent /\ last.session.idToken # Absent
      /\ user # NULL
      /\ isAdmin(user) )
    => IsContinue(middleware(AdminMonitoringRoute, cookies))

----------------------------------------------------------------------------
(* The login page's submit handler *)

\* the login() awaited by handleSubmit ends in this step
SubmitLoginEnds ==
    \E c \in OwnedBy("handleSubmit", "login") : CopiesIn(c, calls') < CopiesIn(c, calls)

\* the refreshUser() awaited by handleSubmit ends in this step
SubmitRefreshEnds ==
    \E c \in OwnedBy("handleSubmit", "refreshUser") : calls' = Without(calls, c)

\* C24: when the login() awaited by the submit handler ends, nothing is
\* requested in that step; after a full sign-in a refresh awaited by the
\* handler is suspended, otherwise (challenge, other next step, failure) none
\* is.  When that refresh ends, the destination is requested with the cookies
\* as the refresh left them, which carry both markers if the refresh succeeded
\* with both tokens
C24_SubmitWaitsForRefresh ==
    [][ /\ SubmitLoginEnds =>
              /\ UNCHANGED <<request, response, cookies, user>>
              /\ IF last'.outcome = "DONE"
                 THEN OwnedBy("handleSubmit", "refreshUser")' # {}
                 ELSE OwnedBy("handleSubmit", "refreshUser")' = {}
        /\ SubmitRefreshEnds =>
              /\ request' = [path |-> RedirectTarget(Location.search), jar |-> cookies']
              /\ response' = middleware(request'.path, cookies')
              /\ ( /\ last'.outcome = "ok"
                    /\ last'.session.accessToken # Absent
                    /\ last'.session.idToken # Absent )
                 => /\ MarkersPresent(request'.jar)
                    /\ request'.jar = setAuthCookies(last'.session, cookies) ]_vars

\* after a sign-in from /login the dashboard was served with the cookies the
\* handler's refresh wrote
C24_Witness ==
    /\ RefreshSucceeded
    /\ last.owner = "handleSubmit"
    /\ request.path = DashboardRoute
    /\ request.jar = cookies
    /\ MarkersPresent(cookies)
    /\ IsContinue(response)

\* the refreshUser() awaited by handlePasswordChange ends in this step
PasswordChangeRefreshEnds ==
    \E c \in OwnedBy("handlePasswordChange", "refreshUser") : calls' = Without(calls, c)

\* the tab is at /login because the Route Guard redirected an unauthenticated
\* request for a protected path
SentToLogin ==
    /\ Protected(request.path)
    /\ ~isAuthenticated(request.jar)
    /\ response.kind = "redirect"
    /\ response.pathname = LoginRoute

\* C25: when the sign-in of the login page is finished, by handleSubmit or by
\* handlePasswordChange, the page requests the decoded value of the redirect
\* parameter of its address, or /dashboard when that value is absent or
\* empty; if the Route Guard had sent the tab to /login from protected path p,
\* the parameter is p and the page requests exactly p
C25_ReturnPathRoundTrip ==
    [][ (SubmitRefreshEnds \/ PasswordChangeRefreshEnds) =>
            LET value == SearchParamsGet(Location.search, RedirectKey)
            IN  /\ request'.path = IF value = <<>> THEN DashboardRoute ELSE value
                /\ SentToLogin => /\ value = request.path
                                  /\ request'.path = request.path ]_vars

\* after the password-change step the tab is back at /implementation
C25_Witness ==
    /\ RefreshSucceeded
    /\ last.owner = "handlePasswordChange"
    /\ request.path = ImplementationRoute
    /\ request.jar = cookies
    /\ IsContinue(response)

----------------------------------------------------------------------------
(* The Route Guard's classification of paths *)

\* C26: a request whose path starts with /signup, /forgot-password or
\* /reset-password, or is /, or is classified neither protected nor public,
\* is continued whatever the cookies are; a redirected request for a public
\* path has a path starting with /login
C26_OnlyLoginAmongPublicRedirects ==
    Handled =>
        /\ ( \/ StartsWith(request.path, SignupRoute)
             \/ StartsWith(request.path, ForgotPasswordRoute)
             \/ StartsWith(request.path, ResetPasswordRoute)
             \/ request.path = RootRoute
             \/ (~isAuthenticatedRoute(request.path) /\ ~isPublicRoute(request.path)) )
           => IsContinue(response)
        /\ (isPublicRoute(request.path) /\ response.kind = "redirect")
           => StartsWith(request.path, LoginRoute)

\* /signup is continued for a request with both markers
C26_Witness ==
    /\ Handled
    /\ request.path = SignupRoute
    /\ MarkersPresent(request.jar)
    /\ request.jar.userGroup = "ImplementationUser"
    /\ IsContinue(response)

\* C27: if a request is redirected, a request for the redirect target with
\* the same cookies is continued
C27_RedirectTargetContinues ==
    (Handled /\ response.kind = "redirect")
        => IsContinue(middleware(response.pathname, request.jar))

\* an /admin request without the administrative group ends at /dashboard
C27_Witness ==
    /\ Handled
    /\ request.path = AdminRoute \o <<"x">>
    /\ MarkersPresent(request.jar)
    /\ request.jar.userGroup = "ImplementationUser"
    /\ response.kind = "redirect"
    /\ response.pathname = DashboardRoute
    /\ IsContinue(middleware(DashboardRoute, request.jar))

\* C30: a path classified admin is classified protected, and no path is
\* classified both public and protected
C30_ClassificationIsConsistent ==
    Handled =>
        /\ isAdminRoute(request.path) => isAuthenticatedRoute(request.path)
        /\ ~(isPublicRoute(request.path) /\ isAuthenticatedRoute(request.path))

\* a path under /admin/ was classified
C30_Witness ==
    /\ Handled
    /\ request.path = AdminRoute \o <<"/", "x">>
    /\ isAdminRoute(request.path)
    /\ isAuthenticatedRoute(request.path)
    /\ ~isPublicRoute(request.path)

----------------------------------------------------------------------------
(* The Cookie Projection as a whole *)

AllPresent(jar) ==
    jar.accessToken # Absent /\ jar.idToken # Absent /\ jar.userGroup # Absent

AllAbsent(jar) ==
    jar.accessToken = Absent /\ jar.idToken = Absent /\ jar.userGroup = Absent

\* C29: whatever refreshUser(), login() and logout() calls were made and
\* however far they have run, the access-token, id-token and primary-group
\* cookies are all present or all absent
C29_ProjectionIsAllOrNothing ==
    AllPresent(cookies) \/ AllAbsent(cookies)

\* a refresh of a session without groups wrote all three cookies
C29_Witness ==
    /\ RefreshSucceeded
    /\ ClaimGroups(last.session) = <<>>
    /\ AllPresent(cookies)
    /\ cookies.userGroup = "none"

----------------------------------------------------------------------------
(* The Header's open menu *)

\* C28: the open-menu key is null or a key of the sections derived from the
\* current user, so sections[openMenu] is defined
C28_OpenMenuIsASection ==
    openMenu = NoMenu \/ openMenu \in DOMAIN sections(user)

====
